---- MODULE Spec2Model ----
(***************************************************************************)
(* StudyShare backend: the Post and Comment Mongoose models.               *)
(*                                                                         *)
(* The database (collections posts, comments, users) is the shared state.  *)
(* A request first loads a document (findById) and later changes and saves *)
(* its copy.  The method body and the pre('save') hook run when save() is  *)
(* called and read the clock then; they end by sending one command (an     *)
(* insert, or an update of the paths modified on the loaded copy: $set for *)
(* scalars, $push for array appends), which the database applies later.    *)
(* The post('save') hook runs after that command has been applied, and     *)
(* each updateOne it awaits is a further command of its own.  Other        *)
(* requests and the clock interleave between all of these.                 *)
(*                                                                         *)
(* Numbers: rating.average is kept in tenths (43 is 4.3), scores in tenths *)
(* of a point, the clock in hours.                                         *)
(***************************************************************************)
EXTENDS Integers, Sequences, FiniteSets, TLC

VARIABLES
    now,        \* the clock (new Date(), Date.now), in hours
    posts,      \* the posts collection: _id -> document
    users,      \* the users collection: _id -> stats
    comments,   \* the comments collection, in insertion order
    req,        \* the requests in flight: their loaded document, the document
                \* their save() sent, and their outcome
    completed,  \* how many incrementViews / addRating calls have resolved, and how
                \* many re-saves of existing comments have been written
    hooks,      \* the save() calls awaiting a command: the insert of a new
                \* document, or the next updateOne of a post('save') hook
    trending    \* the outcome of the last getTrending aggregation

vars == <<now, posts, users, comments, req, completed, hooks, trending>>

(***************************************************************************)
(* Bounds of the model.                                                    *)
(***************************************************************************)
MaxCalls == 3        \* method calls on a post per behaviour
MaxClock == 24       \* the clock stops advancing here
TickHours == 12      \* granularity of the clock
MaxLikes == 1        \* likes per post in a generated collection
MaxPostComments == 1 \* comments per post in a generated collection
MaxAgeDays == 1      \* age of a post in a generated collection
MaxLimit == 3        \* largest limit passed to getTrending
MaxComments == 3     \* comments in the collection of the comment model
MaxSaves == 2        \* saves of existing comments per behaviour
MaxChain == 7        \* comments in the collection of the reply-chain model
MaxPending == 2      \* comment saves whose post('save') hook is still running

(***************************************************************************)
(* Program constants.                                                      *)
(***************************************************************************)
DAY_HOURS == 24      \* 24 * 60 * 60 * 1000 ms
MIN_RATING == 1
MAX_RATING == 5
MAX_DEPTH == 5
DEFAULT_LIMIT == 10

PostIds == {"p1", "p2"}
UserIds == {"u1", "u2"}          \* ObjectIds a caller may pass as a user
Registered == {"u1"}             \* the ones with a document in users
Reqs == {"r1", "r2"}
Subjects == {"math", "physics"}
NoUser == "null"                 \* userId = null
NoSubject == "null"              \* subject = null
NoLimit == 0 - 1                 \* limit left undefined
NoReq == "none"                  \* a save() no modelled request waits for
HookSlots == 1..(Cardinality(Reqs) + MaxPending)   \* positions in hooks
RatingInputs == 0..6
ViewerInputs == UserIds \cup {NoUser}
Stars == MIN_RATING..MAX_RATING

(***************************************************************************)
(* The rating sub-document and its setter.                                 *)
(***************************************************************************)
\* set: val => Math.round(val * 10) / 10, for val = num / den, in tenths
averageSetterTrunc(num, den) == (10 * num) \div den
averageSetter(num, den) == (20 * num + den) \div (2 * den)

RECURSIVE SumOver(_, _)
SumOver(f, S) ==
    IF S = {} THEN 0
    ELSE LET k == CHOOSE x \in S : TRUE IN f[k] + SumOver(f, S \ {k})

\* Object.values(details).reduce((a, b) => a + b, 0)
totalRatings(details) == SumOver(details, DOMAIN details)
\* Object.entries(details).reduce((sum, [rating, count]) => sum + parseInt(rating) * count, 0)
sumRatings(details) == SumOver([k \in DOMAIN details |-> k * details[k]], DOMAIN details)

DefaultRating == [average |-> 0, count |-> 0, details |-> [k \in Stars |-> 0]]

\* new Post({author, subject, status}) with the schema defaults
NewPost(author, subject, status) ==
    [author |-> author, subject |-> subject, status |-> status,
     likes |-> 0, saves |-> 0, views |-> 0, viewHistory |-> <<>>,
     rating |-> DefaultRating, publishedAt |-> now, lastActivity |-> now,
     version |-> 0]

Exists(p) == p \in DOMAIN posts
Idle == [pc |-> "idle", id |-> "p1", orig |-> <<>>, doc |-> <<>>, op |-> "none",
         dateModified |-> FALSE, outcome |-> "none"]
InFlight == {r \in Reqs : req[r].pc # "idle"}
CallsUsed == completed.views + completed.ratings + Cardinality(InFlight)
\* no request holds a document and no save() is waiting for a command
Quiescent == InFlight = {} /\ hooks = <<>>

\* the sequence s without its i-th element
Remove(s, i) == SubSeq(s, 1, i - 1) \o SubSeq(s, i + 1, Len(s))

(***************************************************************************)
(* Hooks of the post schema.                                               *)
(***************************************************************************)
\* pre('save'): this.lastActivity = new Date()
PostPreSave(doc) == [doc EXCEPT !.lastActivity = now]

\* post('save'): $inc stats.postsCount of the author when doc.status is published
PostPostSave(doc, us) ==
    IF doc.status = "published" /\ doc.author \in DOMAIN us
    THEN [us EXCEPT ![doc.author].postsCount = @ + 1]
    ELSE us

\* a new document on its way to the collection: its insert has been sent
Insert(kind, doc, post) ==
    [kind |-> kind, doc |-> doc, post |-> post, req |-> NoReq, op |-> "create"]

\* the insert of the document p has been sent and not applied
Inserting(p) == \E i \in DOMAIN hooks : hooks[i].kind = "insert" /\ hooks[i].post = p

\* what the hook still needs of the saved document, and whose save() it ends:
\* op is "create", "views", "ratings" or "save"
Hook(kind, doc, post, r, op) ==
    [kind |-> kind,
     doc |-> [author |-> doc.author, status |-> doc.status, post |-> post],
     req |-> r, op |-> op]

\* Mongoose versioning: a $set of a path with a numeric segment
\* (rating.details.<k>) adds the loaded __v to the update's filter
versionWhere(orig, cur) ==
    \E k \in Stars : cur.rating.details[k] # orig.rating.details[k]

\* Mongoose versioning: a $push increments __v
versionInc(orig, cur) == Len(cur.viewHistory) > Len(orig.viewHistory)

\* whether pre('save') modified lastActivity: new Date() is a time in
\* milliseconds, so within the hour of the loaded value it is the same instant
\* (path not modified) or a later one (modified); in another hour it differs
lastActivityModified(orig, cur) ==
    IF cur.lastActivity # orig.lastActivity THEN {TRUE} ELSE BOOLEAN

\* document.save() of a loaded document: the update holds the modified paths only
SaveUpdate(stored, orig, cur, dateModified) ==
    [stored EXCEPT
        !.views = IF cur.views # orig.views THEN cur.views ELSE @,
        !.viewHistory = @ \o SubSeq(cur.viewHistory, Len(orig.viewHistory) + 1,
                                    Len(cur.viewHistory)),
        !.rating.average = IF cur.rating.average # orig.rating.average
                           THEN cur.rating.average ELSE @,
        !.rating.count = IF cur.rating.count # orig.rating.count
                         THEN cur.rating.count ELSE @,
        !.rating.details = [k \in Stars |->
                              IF cur.rating.details[k] # orig.rating.details[k]
                              THEN cur.rating.details[k] ELSE @[k]],
        !.lastActivity = IF dateModified THEN cur.lastActivity ELSE @,
        !.version = IF versionInc(orig, cur) THEN @ + 1 ELSE @]

(***************************************************************************)
(* Post methods, as functions of the loaded document.                      *)
(***************************************************************************)
\* viewHistory.find(view => view.userId == userId && new Date() - view.viewedAt < 24h)
recentView(doc, userId) ==
    \E i \in 1..Len(doc.viewHistory) :
        /\ doc.viewHistory[i].userId = userId
        /\ now - doc.viewHistory[i].viewedAt < DAY_HOURS

\* the body of incrementViews up to save()
viewsMutationNoDedupe(doc, userId) ==
    LET counted == [doc EXCEPT !.views = @ + 1] IN
    IF userId # NoUser
    THEN [counted EXCEPT !.viewHistory =
              Append(@, [userId |-> userId, viewedAt |-> now])]
    ELSE counted
viewsMutation(doc, userId) ==
    LET counted == [doc EXCEPT !.views = @ + 1] IN
    IF userId # NoUser /\ ~recentView(doc, userId)
    THEN [counted EXCEPT !.viewHistory =
              Append(@, [userId |-> userId, viewedAt |-> now])]
    ELSE counted

\* if (ratingValue < 1 || ratingValue > 5) throw
validRatingStrict(ratingValue) == ~(ratingValue < MIN_RATING \/ ratingValue >= MAX_RATING)
validRating(ratingValue) == ~(ratingValue < MIN_RATING \/ ratingValue > MAX_RATING)

\* the body of addRating after the range check, up to save()
ratingMutation(doc, ratingValue) ==
    LET details == [k \in Stars |->
                      IF k = ratingValue THEN doc.rating.details[k] + 1
                      ELSE doc.rating.details[k]]
        total == totalRatings(details)
    IN [doc EXCEPT !.rating = [average |-> averageSetter(sumRatings(details), total),
                               count |-> total,
                               details |-> details]]

(***************************************************************************)
(* Operations on posts.                                                    *)
(***************************************************************************)
\* new Post(...).save(): the defaults and pre('save') read the clock, the
\* insert is sent
CreatePost(p, author, subject, status) ==
    /\ ~Exists(p)
    /\ ~Inserting(p)
    /\ hooks' = Append(hooks, Insert("insert",
                                     PostPreSave(NewPost(author, subject, status)), p))
    /\ UNCHANGED <<now, posts, users, comments, req, completed, trending>>

\* the insert is applied; the post('save') hook follows
InsertPost(i) ==
    /\ i \in DOMAIN hooks
    /\ hooks[i].kind = "insert"
    /\ LET p == hooks[i].post
           doc == hooks[i].doc
       IN /\ posts' = [q \in DOMAIN posts \cup {p} |-> IF q = p THEN doc ELSE posts[q]]
          /\ hooks' = [hooks EXCEPT ![i] = Hook("postsCount", doc, p, NoReq, "create")]
    /\ UNCHANGED <<now, users, comments, req, completed, trending>>

\* Post.findById(p): the request holds its own copy of the document
Load(r, p) ==
    /\ req[r].pc = "idle"
    /\ Exists(p)
    /\ CallsUsed < MaxCalls
    /\ req' = [req EXCEPT ![r] = [Idle EXCEPT !.pc = "loaded", !.id = p,
                                              !.orig = posts[p], !.doc = posts[p]]]
    /\ UNCHANGED <<now, posts, users, comments, completed, hooks, trending>>

\* the save() both methods end with, up to sending the update: pre('save')
\* runs on the mutated copy
SaveLoaded(r, mutated, op) ==
    \E dateModified \in lastActivityModified(req[r].orig, PostPreSave(mutated)) :
        req' = [req EXCEPT ![r].pc = "sent", ![r].doc = PostPreSave(mutated),
                           ![r].op = op, ![r].dateModified = dateModified]

\* doc.incrementViews(userId), up to sending the update of its save()
incrementViews(r, userId) ==
    /\ req[r].pc = "loaded"
    /\ SaveLoaded(r, viewsMutation(req[r].doc, userId), "views")
    /\ UNCHANGED <<now, posts, users, comments, completed, hooks, trending>>

\* doc.addRating(userId, ratingValue), up to sending the update of its save()
addRating(r, userId, ratingValue) ==
    /\ req[r].pc = "loaded"
    /\ IF validRating(ratingValue)
       THEN SaveLoaded(r, ratingMutation(req[r].doc, ratingValue), "ratings")
       ELSE req' = [req EXCEPT ![r] = [Idle EXCEPT !.outcome = "error"]]
    /\ UNCHANGED <<now, posts, users, comments, completed, hooks, trending>>

\* the update command of a save() is applied: it matches no document
\* (VersionError, no hook) when its filter holds a stale __v
UpdatePost(r) ==
    /\ req[r].pc = "sent"
    /\ LET p == req[r].id
           orig == req[r].orig
           cur == req[r].doc
       IN IF versionWhere(orig, cur) /\ posts[p].version # orig.version
          THEN /\ req' = [req EXCEPT ![r] = [Idle EXCEPT !.outcome = "VersionError"]]
               /\ UNCHANGED <<posts, hooks>>
          ELSE /\ posts' = [posts EXCEPT ![p] = SaveUpdate(posts[p], orig, cur,
                                                           req[r].dateModified)]
               /\ hooks' = Append(hooks, Hook("postsCount", cur, p, r, req[r].op))
               /\ req' = [req EXCEPT ![r] = [Idle EXCEPT !.pc = "saving"]]
    /\ UNCHANGED <<now, users, comments, completed, trending>>

\* the post('save') hook of a written post: its User.updateOne is applied and
\* the save() resolves
PostSaveHook(i) ==
    /\ i \in DOMAIN hooks
    /\ hooks[i].kind = "postsCount"
    /\ users' = PostPostSave(hooks[i].doc, users)
    /\ hooks' = Remove(hooks, i)
    /\ IF hooks[i].req = NoReq
       THEN UNCHANGED <<req, completed>>
       ELSE /\ req' = [req EXCEPT ![hooks[i].req] = [Idle EXCEPT !.outcome = "ok"]]
            /\ completed' = IF hooks[i].op = "views"
                            THEN [completed EXCEPT !.views = @ + 1]
                            ELSE [completed EXCEPT !.ratings = @ + 1]
    /\ UNCHANGED <<now, posts, comments, trending>>

\* time passes
Tick ==
    /\ now < MaxClock
    /\ now' = now + TickHours
    /\ UNCHANGED <<posts, users, comments, req, completed, hooks, trending>>

NoStats == [postsCount |-> 0, commentsCount |-> 0]

InitBase ==
    /\ now = 0
    /\ users = [u \in Registered |-> NoStats]
    /\ comments = <<>>
    /\ req = [r \in Reqs |-> Idle]
    /\ completed = [views |-> 0, ratings |-> 0, commentSaves |-> 0]
    /\ hooks = <<>>
    /\ trending = [status |-> "none", limit |-> NoLimit, subject |-> NoSubject,
                   rows |-> <<>>]

Init ==
    /\ InitBase
    /\ posts = <<>>

(***************************************************************************)
(* Spec: requests on one post run concurrently.                            *)
(***************************************************************************)
Next ==
    \/ \E status \in {"published", "draft"} : CreatePost("p1", "u1", "math", status)
    \/ \E r \in Reqs : Load(r, "p1")
    \/ \E r \in Reqs, u \in ViewerInputs : incrementViews(r, u)
    \/ \E r \in Reqs, u \in UserIds, v \in RatingInputs : addRating(r, u, v)
    \/ \E i \in HookSlots : InsertPost(i)
    \/ \E r \in Reqs : UpdatePost(r)
    \/ \E i \in HookSlots : PostSaveHook(i)
    \/ Tick

Spec == Init /\ [][Next]_vars

(***************************************************************************)
(* SeqSpec: the same operations, one request at a time.                    *)
(***************************************************************************)
SeqNext ==
    \/ \E status \in {"published", "draft"} : CreatePost("p1", "u1", "math", status)
    \/ \E r \in Reqs : Quiescent /\ Load(r, "p1")
    \/ \E r \in Reqs, u \in ViewerInputs : incrementViews(r, u)
    \/ \E r \in Reqs, u \in UserIds, v \in RatingInputs : addRating(r, u, v)
    \/ \E i \in HookSlots : InsertPost(i)
    \/ \E r \in Reqs : UpdatePost(r)
    \/ \E i \in HookSlots : PostSaveHook(i)
    \/ Tick

SeqSpec == Init /\ [][SeqNext]_vars

(***************************************************************************)
(* Scores.  All scores are in tenths of a point.                           *)
(***************************************************************************)
\* new Comment({post, author, content, parentComment, status}) with the defaults
NewComment(post, author, content, parentComment, status) ==
    [post |-> post, author |-> author, content |-> content,
     parentComment |-> parentComment, depth |-> 0, status |-> status,
     edited |-> FALSE, editHistory |-> <<>>]

\* virtual commentsCount, populated: the comments whose post is this one
commentsCount(p) == Cardinality({i \in DOMAIN comments : comments[i].post = p})

\* virtual popularityScore, with commentsCount populated
popularityScore(doc, nComments) ==
    LET likesWeight == doc.likes * 20
        savesWeight == doc.saves * 30
        commentsWeight == nComments * 15
        viewsWeight == doc.views * 1
        ratingWeight == doc.rating.average * 20
    IN likesWeight + savesWeight + commentsWeight + viewsWeight + ratingWeight

\* getTrending, $addFields score
trendingNumerator(doc) ==
    doc.likes * 20 + doc.saves * 30 + doc.views * 1 + doc.rating.average * 20

\* getTrending, $addFields recency, in hours (recency in days is this / 24)
recencyHours(doc) == now - doc.publishedAt

\* trendingScore(a) >= trendingScore(b), where trendingScore = score / (1 + recency)
\* and 1 + recency = (24 + recencyHours) / 24 is positive
TrendingGEAscending(a, b) ==
    trendingNumerator(a) * (DAY_HOURS + recencyHours(b))
        <= trendingNumerator(b) * (DAY_HOURS + recencyHours(a))
TrendingGE(a, b) ==
    trendingNumerator(a) * (DAY_HOURS + recencyHours(b))
        >= trendingNumerator(b) * (DAY_HOURS + recencyHours(a))

\* $match
Matching(subject) ==
    {p \in DOMAIN posts :
        /\ posts[p].status = "published"
        /\ (subject # NoSubject => posts[p].subject = subject)}

\* $sort { trendingScore: -1 }: any order of the set that is descending
SortedOrders(S) ==
    {s \in [1..Cardinality(S) -> S] :
        /\ \A i, j \in 1..Cardinality(S) : i # j => s[i] # s[j]
        /\ \A i, j \in 1..Cardinality(S) : i < j => TrendingGE(posts[s[i]], posts[s[j]])}

\* $limit
Limited(rows, limit) == SubSeq(rows, 1, IF limit < Len(rows) THEN limit ELSE Len(rows))

\* $lookup users + $unwind authorDetails: a row whose author has no user
\* document has an empty authorDetails and is dropped
RECURSIVE Unwind(_)
Unwind(rows) ==
    IF rows = <<>> THEN <<>>
    ELSE IF posts[Head(rows)].author \in DOMAIN users
         THEN <<Head(rows)>> \o Unwind(Tail(rows))
         ELSE Unwind(Tail(rows))

\* Post.getTrending(limit, subject); the rows are the _id of the documents
getTrending(limit, subject) ==
    LET lim == IF limit = NoLimit THEN DEFAULT_LIMIT ELSE limit IN
    /\ IF lim <= 0
       THEN \* the server rejects the pipeline: the limit must be positive
            trending' = [status |-> "error", limit |-> limit, subject |-> subject,
                         rows |-> <<>>]
       ELSE \E sorted \in SortedOrders(Matching(subject)) :
              trending' = [status |-> "ok", limit |-> limit, subject |-> subject,
                           rows |-> Unwind(Limited(sorted, lim))]
    /\ UNCHANGED <<now, posts, users, comments, req, completed, hooks>>

(***************************************************************************)
(* TrendSpec: getTrending over a collection of posts drawn from the        *)
(* bounded inputs.                                                         *)
(***************************************************************************)
PostInputs ==
    {[NewPost(author, subject, status) EXCEPT
          !.likes = likes,
          !.publishedAt = now - age * DAY_HOURS,
          !.lastActivity = now - age * DAY_HOURS] :
        author \in UserIds, subject \in Subjects, status \in {"published", "draft"},
        likes \in 0..MaxLikes, age \in 0..MaxAgeDays}

RECURSIVE CommentsOn(_, _)
CommentsOn(n, S) ==
    IF S = {} THEN <<>>
    ELSE LET p == CHOOSE x \in S : TRUE IN
         [i \in 1..n[p] |-> NewComment(p, "u1", "a", 0, "active")]
            \o CommentsOn(n, S \ {p})

SubjectInputs == {NoSubject, "math", "history"}
LimitInputs == (0..MaxLimit) \cup {NoLimit}

TrendInit ==
    /\ now = MaxAgeDays * DAY_HOURS
    /\ users = [u \in Registered |-> NoStats]
    /\ req = [r \in Reqs |-> Idle]
    /\ completed = [views |-> 0, ratings |-> 0, commentSaves |-> 0]
    /\ hooks = <<>>
    /\ trending = [status |-> "none", limit |-> NoLimit, subject |-> NoSubject,
                   rows |-> <<>>]
    /\ posts \in [PostIds -> PostInputs]
    /\ \E n \in [PostIds -> 0..MaxPostComments] : comments = CommentsOn(n, PostIds)

TrendNext ==
    \E limit \in LimitInputs, subject \in SubjectInputs : getTrending(limit, subject)

TrendSpec == TrendInit /\ [][TrendNext]_vars

(***************************************************************************)
(* Comments.  parentComment is the position of the parent in the           *)
(* collection, NoParent for null.                                          *)
(***************************************************************************)
NoParent == 0
Undefined == "undefined"
Contents == {"a", "b"}
StatusInputs == {"active", "hidden"}

\* depth: { max: 5 }, run by validation before the pre('save') hook
validDepth(doc) == doc.depth <= MAX_DEPTH

\* pre('save'), depth: if (this.parentComment) this.depth = 1
preSaveDepthFromParent(doc) ==
    IF doc.parentComment # NoParent
    THEN [doc EXCEPT !.depth = comments[doc.parentComment].depth + 1]
    ELSE doc
preSaveDepth(doc) ==
    IF doc.parentComment # NoParent THEN [doc EXCEPT !.depth = 1] ELSE doc

\* pre('save'), edit history: the entry holds this._previousContent || this.content
editEntry(doc, previousContent) ==
    [content |-> IF previousContent # Undefined THEN previousContent ELSE doc.content,
     editedAt |-> now, reason |-> "User edit"]

\* pre('save'), edit history: if (this.isModified('content') && !this.isNew)
preSaveHistory(doc, contentModified, isNew, previousContent) ==
    IF contentModified /\ ~isNew
    THEN [doc EXCEPT !.edited = TRUE,
                     !.editHistory = Append(@, editEntry(doc, previousContent))]
    ELSE doc

CommentPreSave(doc, contentModified, isNew, previousContent) ==
    preSaveHistory(preSaveDepth(doc), contentModified, isNew, previousContent)

\* document.save() of a loaded comment: the update holds the modified paths only
CommentSaveUpdate(stored, orig, cur) ==
    [stored EXCEPT
        !.content = IF cur.content # orig.content THEN cur.content ELSE @,
        !.status = IF cur.status # orig.status THEN cur.status ELSE @,
        !.depth = IF cur.depth # orig.depth THEN cur.depth ELSE @,
        !.edited = IF cur.edited # orig.edited THEN cur.edited ELSE @,
        !.editHistory = @ \o SubSeq(cur.editHistory, Len(orig.editHistory) + 1,
                                    Len(cur.editHistory))]

\* post('save'), first command: Post.updateOne sets lastActivity to new Date();
\* the $inc of the author follows when doc.status is active.  (The source of
\* the hook ends after the $inc; what follows it is not modelled.)
CommentPostSave(i) ==
    /\ i \in DOMAIN hooks
    /\ hooks[i].kind = "lastActivity"
    /\ posts' = IF hooks[i].doc.post \in DOMAIN posts
                THEN [posts EXCEPT ![hooks[i].doc.post].lastActivity = now]
                ELSE posts
    /\ hooks' = IF hooks[i].doc.status = "active"
                THEN [hooks EXCEPT ![i].kind = "commentsCount"]
                ELSE Remove(hooks, i)
    /\ UNCHANGED <<now, users, comments, req, completed, trending>>

\* post('save'), second command: User.updateOne $inc stats.commentsCount
CommentPostSaveInc(i) ==
    /\ i \in DOMAIN hooks
    /\ hooks[i].kind = "commentsCount"
    /\ users' = IF hooks[i].doc.author \in DOMAIN users
                THEN [users EXCEPT ![hooks[i].doc.author].commentsCount = @ + 1]
                ELSE users
    /\ hooks' = Remove(hooks, i)
    /\ UNCHANGED <<now, posts, comments, req, completed, trending>>

\* saves of comments that have sent a command the database has not applied
SentComments ==
    Cardinality({r \in Reqs : req[r].pc = "sentComment"})
    + Cardinality({i \in DOMAIN hooks : hooks[i].kind = "insertComment"})

\* new Comment({...}).save(): validation and pre('save'), the insert is sent
InsertComment(post, author, content, parentComment, status) ==
    /\ parentComment \in {NoParent} \cup DOMAIN comments
    /\ Len(hooks) + Cardinality({r \in Reqs : req[r].pc = "sentComment"}) < MaxPending
    /\ LET fresh == NewComment(post, author, content, parentComment, status)
       IN /\ validDepth(fresh)
          /\ hooks' = Append(hooks, Insert("insertComment",
                                           CommentPreSave(fresh, TRUE, TRUE, Undefined),
                                           post))
    /\ UNCHANGED <<now, posts, users, comments, req, completed, trending>>

CreateComment(post, author, content, parentComment, status) ==
    /\ Len(comments) + SentComments < MaxComments
    /\ InsertComment(post, author, content, parentComment, status)

\* the insert is applied; the post('save') hook follows
InsertCommentApplied(i) ==
    /\ i \in DOMAIN hooks
    /\ hooks[i].kind = "insertComment"
    /\ comments' = Append(comments, hooks[i].doc)
    /\ hooks' = [hooks EXCEPT ![i] = Hook("lastActivity", hooks[i].doc, hooks[i].post,
                                           NoReq, "create")]
    /\ UNCHANGED <<now, posts, users, req, completed, trending>>

\* Comment.findById: the request holds its own copy of the comment
LoadComment(r, i) ==
    /\ req[r].pc = "idle"
    /\ i \in DOMAIN comments
    /\ completed.commentSaves + Cardinality(InFlight) < MaxSaves
    /\ req' = [req EXCEPT ![r] = [Idle EXCEPT !.pc = "loadedComment", !.id = i,
                                              !.orig = comments[i],
                                              !.doc = comments[i]]]
    /\ UNCHANGED <<now, posts, users, comments, completed, hooks, trending>>

\* save() of the loaded comment, up to sending the update: validation, pre('save')
SaveComment(r, doc) ==
    /\ Len(hooks) + Cardinality({q \in Reqs : req[q].pc = "sentComment"}) < MaxPending
    /\ validDepth(req[r].doc)
    /\ req' = [req EXCEPT ![r].pc = "sentComment", ![r].doc = doc, ![r].op = "save"]
    /\ UNCHANGED <<now, posts, users, comments, completed, hooks, trending>>

\* comment.content = content (the caller may also set comment._previousContent), save()
EditComment(r, content, previousContent) ==
    /\ req[r].pc = "loadedComment"
    /\ previousContent \in {Undefined, req[r].doc.content}
    /\ SaveComment(r, CommentPreSave([req[r].doc EXCEPT !.content = content],
                                     content # req[r].doc.content, FALSE,
                                     previousContent))

\* moderation: comment.status = status, save()
SetStatus(r, status) ==
    /\ req[r].pc = "loadedComment"
    /\ SaveComment(r, CommentPreSave([req[r].doc EXCEPT !.status = status],
                                     FALSE, FALSE, Undefined))

\* the update command of a comment's save() is applied; the post('save') hook follows
UpdateComment(r) ==
    /\ req[r].pc = "sentComment"
    /\ comments' = [comments EXCEPT
                       ![req[r].id] = CommentSaveUpdate(@, req[r].orig, req[r].doc)]
    /\ hooks' = Append(hooks, Hook("lastActivity", req[r].doc, req[r].doc.post,
                                   NoReq, "save"))
    /\ req' = [req EXCEPT ![r] = Idle]
    /\ completed' = [completed EXCEPT !.commentSaves = @ + 1]
    /\ UNCHANGED <<now, posts, users, trending>>

(***************************************************************************)
(* CommentSpec: comments on one published post.                            *)
(***************************************************************************)
\* the post was created by u1 one tick ago
CommentInit ==
    /\ now = TickHours
    /\ users = [u \in Registered |-> [NoStats EXCEPT !.postsCount = 1]]
    /\ posts = [p \in {"p1"} |->
                  [NewPost("u1", "math", "published") EXCEPT
                      !.publishedAt = 0, !.lastActivity = 0]]
    /\ comments = <<>>
    /\ req = [r \in Reqs |-> Idle]
    /\ completed = [views |-> 0, ratings |-> 0, commentSaves |-> 0]
    /\ hooks = <<>>
    /\ trending = [status |-> "none", limit |-> NoLimit, subject |-> NoSubject,
                   rows |-> <<>>]

CommentNext ==
    \/ \E author \in Registered, content \in Contents, status \in StatusInputs,
          parent \in 0..MaxComments :
            CreateComment("p1", author, content, parent, status)
    \/ \E r \in Reqs, i \in 1..MaxComments : LoadComment(r, i)
    \/ \E r \in Reqs, content \in Contents, previousContent \in Contents \cup {Undefined} :
            EditComment(r, content, previousContent)
    \/ \E r \in Reqs, status \in StatusInputs : SetStatus(r, status)
    \/ \E i \in HookSlots : InsertCommentApplied(i)
    \/ \E r \in Reqs : UpdateComment(r)
    \/ \E i \in HookSlots : CommentPostSave(i)
    \/ \E i \in HookSlots : CommentPostSaveInc(i)

CommentSpec == CommentInit /\ [][CommentNext]_vars

(***************************************************************************)
(* ChainSpec: long reply chains.  Every new comment either starts a thread *)
(* or replies to the latest comment, so a chain of MaxChain comments, each *)
(* the reply to the one before, is built; existing comments are edited.    *)
(* A comment is created when nothing is in flight and loaded when no hook  *)
(* is running; two requests may hold copies of one comment, and the hook   *)
(* of one edit runs while the other edit is saved.                         *)
(***************************************************************************)
ChainNext ==
    \/ \E parent \in {NoParent, Len(comments)} :
          /\ Len(comments) < MaxChain
          /\ Quiescent
          /\ InsertComment("p1", "u1", "a", parent, "active")
    \/ \E r \in Reqs, i \in 1..MaxChain : hooks = <<>> /\ LoadComment(r, i)
    \/ \E r \in Reqs, content \in Contents : EditComment(r, content, Undefined)
    \/ \E i \in HookSlots : InsertCommentApplied(i)
    \/ \E r \in Reqs : UpdateComment(r)
    \/ \E i \in HookSlots : CommentPostSave(i)
    \/ \E i \in HookSlots : CommentPostSaveInc(i)

ChainSpec == CommentInit /\ [][ChainNext]_vars

(***************************************************************************)
(* Claims on the engagement counters.                                      *)
(***************************************************************************)
Stored == posts["p1"]
Histogram == Stored.rating.details
HistogramTotal == Histogram[1] + Histogram[2] + Histogram[3] + Histogram[4] + Histogram[5]
HistogramSum ==
    1 * Histogram[1] + 2 * Histogram[2] + 3 * Histogram[3] + 4 * Histogram[4]
    + 5 * Histogram[5]

\* C1: once every addRating call has completed, each of them is reflected in the
\* stored post: rating.count and the histogram total equal the number of
\* successful addRating calls, whatever the interleaving of loads and saves.
C1_BothRatingsReflected ==
    (Exists("p1") /\ Quiescent) =>
        /\ Stored.rating.count = completed.ratings
        /\ HistogramTotal = completed.ratings

\* C2: no view increment is lost: once no call is in flight, the stored views
\* counter equals the number of incrementViews calls that have completed,
\* whatever the interleaving.
C2_NoViewLost ==
    (Exists("p1") /\ Quiescent) => Stored.views = completed.views

\* C3: after any sequence of addRating calls, rating.count is the sum of the
\* five histogram counts, and rating.average is the weighted mean of the
\* histogram rounded to one decimal (0 when count is 0).
C3_RatingAggregate ==
    Exists("p1") =>
        /\ Stored.rating.count = HistogramTotal
        /\ HistogramTotal = 0 => Stored.rating.average = 0
        /\ HistogramTotal > 0 =>
              /\ 2 * Stored.rating.average * HistogramTotal
                    <= 20 * HistogramSum + HistogramTotal
              /\ 20 * HistogramSum + HistogramTotal
                    < 2 * (Stored.rating.average + 1) * HistogramTotal

\* histogram {5: 2, 4: 1}: count 3, average round(14 / 3, 1) = 4.7
C3_Witness ==
    /\ Exists("p1")
    /\ Histogram = [k \in Stars |-> IF k = 5 THEN 2 ELSE IF k = 4 THEN 1 ELSE 0]
    /\ Stored.rating.count = 3
    /\ Stored.rating.average = 47

\* C4: addRating with a value outside 1..5 fails and leaves the stored post and
\* the users untouched (nothing is sent, nothing is saved, no hook runs); with a
\* value in 1..5 its save() adds 1 to that value's bucket, leaving the other
\* four as they were, and the call succeeds when the save() resolves.
C4_RatingRange ==
    [][/\ \A r \in Reqs, u \in UserIds, v \in RatingInputs :
            addRating(r, u, v) =>
                IF v \in 1..5
                THEN /\ req'[r].pc = "sent"
                     /\ req'[r].op = "ratings"
                     /\ \A k \in 1..5 :
                           req'[r].doc.rating.details[k] =
                              Histogram[k] + (IF k = v THEN 1 ELSE 0)
                ELSE /\ req'[r].outcome = "error"
                     /\ req'[r].pc = "idle"
                     /\ posts' = posts
                     /\ users' = users
                     /\ hooks' = hooks
       /\ \A r \in Reqs :
            (UpdatePost(r) /\ req[r].op = "ratings") =>
                /\ req'[r].pc = "saving"
                /\ \E i \in DOMAIN hooks' :
                      hooks'[i].req = r /\ hooks'[i].op = "ratings"
                /\ posts'["p1"].rating.details = req[r].doc.rating.details
                /\ \E v \in 1..5 : \A k \in 1..5 :
                      posts'["p1"].rating.details[k] =
                         Histogram[k] + (IF k = v THEN 1 ELSE 0)
       /\ \A i \in DOMAIN hooks :
            (PostSaveHook(i) /\ hooks[i].op = "ratings") =>
                /\ req'[hooks[i].req].outcome = "ok"
                /\ completed'.ratings = completed.ratings + 1
                /\ posts' = posts
      ]_vars

\* a call with a bad value has failed after a call with a good value succeeded
C4_Witness ==
    /\ Exists("p1")
    /\ \E r \in Reqs : req[r].outcome = "error"
    /\ Stored.rating.count > 0

\* C9: run one at a time, every incrementViews call adds exactly 1 to views and
\* appends a viewHistory entry only for a user with no entry younger than 24
\* hours, so two entries of one user are at least 24 hours apart while every
\* view is counted.
C9_ViewDedupe ==
    /\ [](Exists("p1") =>
            /\ Quiescent => Stored.views = completed.views
            /\ \A i, j \in 1..Len(Stored.viewHistory) :
                  (i < j /\ Stored.viewHistory[i].userId = Stored.viewHistory[j].userId)
                  => Stored.viewHistory[j].viewedAt - Stored.viewHistory[i].viewedAt
                        >= DAY_HOURS)
    /\ [][/\ \A r \in Reqs, u \in ViewerInputs :
              incrementViews(r, u) =>
                LET old == Stored.viewHistory
                    new == req'[r].doc.viewHistory
                IN /\ req'[r].doc.views = Stored.views + 1
                   /\ \/ new = old
                      \/ /\ new = Append(old, [userId |-> u, viewedAt |-> now])
                         /\ u # NoUser
                         /\ \A i \in 1..Len(old) :
                               old[i].userId = u => now - old[i].viewedAt >= DAY_HOURS
          /\ \A r \in Reqs :
              (UpdatePost(r) /\ req[r].op = "views") =>
                /\ posts'["p1"].views = Stored.views + 1
                /\ posts'["p1"].viewHistory = req[r].doc.viewHistory
          ]_vars

\* a user viewed three times, twice within 24 hours: two entries, three views
C9_Witness ==
    /\ Exists("p1")
    /\ Stored.views = 3
    /\ Len(Stored.viewHistory) = 2
    /\ Stored.viewHistory[1].userId = Stored.viewHistory[2].userId

(***************************************************************************)
(* Claims on the trending ranker.                                          *)
(***************************************************************************)
\* C6: for every post the score getTrending ranks by has the popularityScore
\* of the same counters, comment count included, as its numerator.
C6_NumeratorIsPopularity ==
    \A p \in DOMAIN posts :
        trendingNumerator(posts[p]) = popularityScore(posts[p], commentsCount(p))

Min(a, b) == IF a < b THEN a ELSE b
AskedLimit == IF trending.limit = NoLimit THEN DEFAULT_LIMIT ELSE trending.limit

\* C7: getTrending(limit, subject) returns the top `limit` posts: only published
\* posts of the subject asked for, in descending order of trendingScore, exactly
\* min(limit, number of matching published posts) of them.  Stated for the
\* calls with a positive limit; limit = 0 is the case of C8.
C7_TopLimit ==
    (trending.status # "none" /\ AskedLimit >= 1) =>
        /\ trending.status = "ok"
        /\ \A i \in 1..Len(trending.rows) : trending.rows[i] \in Matching(trending.subject)
        /\ \A i, j \in 1..Len(trending.rows) :
              i < j => /\ trending.rows[i] # trending.rows[j]
                       /\ TrendingGE(posts[trending.rows[i]], posts[trending.rows[j]])
        /\ Len(trending.rows)
              = Min(AskedLimit, Cardinality(Matching(trending.subject)))
        /\ \A p \in Matching(trending.subject) :
              (\E i \in 1..Len(trending.rows) : trending.rows[i] = p)
              \/ (\A i \in 1..Len(trending.rows) :
                     TrendingGE(posts[trending.rows[i]], posts[p]))

\* C8: getTrending with limit = 0 returns an empty sequence, not an error,
\* and so does getTrending with a subject no post has.
C8_EmptyResults ==
    (trending.status # "none"
        /\ (trending.limit = 0 \/ Matching(trending.subject) = {}))
    => (trending.status = "ok" /\ trending.rows = <<>>)

(***************************************************************************)
(* Claims on the comment tree.                                             *)
(***************************************************************************)
\* C5: a comment created with a parent is stored at depth
\* min(parent.depth + 1, 5), a comment created without one at depth 0.
C5_DepthFromParent ==
    \A i \in DOMAIN comments :
        comments[i].depth =
            IF comments[i].parentComment = NoParent THEN 0
            ELSE Min(comments[comments[i].parentComment].depth + 1, MAX_DEPTH)

\* C10: editing the content of an existing comment appends exactly one
\* editHistory entry, holding the content before the edit (the content of the
\* copy the edit was made on), and sets edited; creating a comment appends
\* nothing and leaves edited false.
C10_EditHistory ==
    [][/\ \A r \in Reqs, c \in Contents, pc \in Contents \cup {Undefined} :
            (EditComment(r, c, pc) /\ c # req[r].doc.content) =>
                /\ req'[r].doc.edited
                /\ Len(req'[r].doc.editHistory) = Len(req[r].doc.editHistory) + 1
       /\ \A r \in Reqs :
            (UpdateComment(r) /\ req[r].doc.content # req[r].orig.content) =>
                LET i == req[r].id IN
                /\ comments'[i].edited
                /\ comments'[i].content = req[r].doc.content
                /\ Len(comments'[i].editHistory) = Len(comments[i].editHistory) + 1
                /\ \A k \in 1..Len(comments[i].editHistory) :
                      comments'[i].editHistory[k] = comments[i].editHistory[k]
                /\ comments'[i].editHistory[Len(comments'[i].editHistory)].content
                      = req[r].orig.content
       /\ Len(comments') = Len(comments) + 1 =>
                /\ ~comments'[Len(comments')].edited
                /\ comments'[Len(comments')].editHistory = <<>>
      ]_vars

\* C11: an author's commentsCount goes up by exactly 1 when they create a
\* comment whose status is active (in the step that applies the $inc of that
\* creation's hook), and changes on no other step: the save() of an edit or of
\* a status change of an existing comment leaves it as it was.
C11_CommentsCountOnCreate ==
    [][\A u \in DOMAIN users :
          users'[u].commentsCount =
              users[u].commentsCount
              + (IF \E i \in DOMAIN hooks :
                       /\ CommentPostSaveInc(i)
                       /\ hooks[i].op = "create"
                       /\ hooks[i].doc.author = u
                 THEN 1 ELSE 0)]_vars

\* two published posts with the same engagement counters, p published no later
\* than now and q before p
SameCountersOlder(p, q) ==
    /\ posts[p].status = "published" /\ posts[q].status = "published"
    /\ posts[p].likes = posts[q].likes
    /\ posts[p].saves = posts[q].saves
    /\ posts[p].views = posts[q].views
    /\ posts[p].rating.average = posts[q].rating.average
    /\ commentsCount(p) = commentsCount(q)
    /\ recencyHours(posts[p]) >= 0
    /\ recencyHours(posts[q]) > recencyHours(posts[p])

\* trendingScore(q) < trendingScore(p), and q is not placed before p in the result
DecaysAndRanksBehind(p, q) ==
    /\ trendingNumerator(posts[q]) * (DAY_HOURS + recencyHours(posts[p]))
          < trendingNumerator(posts[p]) * (DAY_HOURS + recencyHours(posts[q]))
    /\ ~\E i, j \in 1..Len(trending.rows) :
          i < j /\ trending.rows[i] = q /\ trending.rows[j] = p

\* C12 as stated: of two published posts with identical engagement counters and
\* publishedAt not in the future, the older one has a strictly smaller
\* trendingScore and is never ranked ahead of the newer one by getTrending.
C12_DecayStrict ==
    \A p, q \in DOMAIN posts : SameCountersOlder(p, q) => DecaysAndRanksBehind(p, q)

\* C12 as amended: the same, for posts whose score (likes*2 + saves*3 +
\* views*0.1 + rating.average*20) is positive; with a score of 0 both posts have
\* trendingScore 0 and the sort may return them in either order.
C12_DecayPositive ==
    \A p, q \in DOMAIN posts :
        (SameCountersOlder(p, q) /\ trendingNumerator(posts[p]) > 0)
        => DecaysAndRanksBehind(p, q)

\* getTrending returned both posts of such a pair, the newer one first
C12_Witness ==
    /\ trending.status = "ok"
    /\ \E p, q \in DOMAIN posts :
          /\ SameCountersOlder(p, q)
          /\ trendingNumerator(posts[p]) > 0
          /\ trending.rows = <<p, q>>

\* the number of ancestors of comment i (its nesting level as requested)
RECURSIVE Nesting(_)
Nesting(i) ==
    IF comments[i].parentComment = NoParent THEN 0
    ELSE 1 + Nesting(comments[i].parentComment)

\* C13: every stored comment has a depth in 0..5, after any sequence of
\* creations and edits and whatever the reply chain asked for.
C13_DepthInRange ==
    \A i \in DOMAIN comments : comments[i].depth \in 0..MAX_DEPTH

\* an edited reply nested more than five levels deep is stored
C13_Witness ==
    \E i \in DOMAIN comments : Nesting(i) > MAX_DEPTH /\ comments[i].edited

\* C14: postsCount changes only when a post is created: after any sequence of
\* post creations, incrementViews and addRating calls, once every save() has
\* resolved, an author's postsCount is the number of published posts they
\* created.
C14_PostsCountOnCreate ==
    Quiescent =>
        \A u \in DOMAIN users :
            users[u].postsCount =
                Cardinality({p \in DOMAIN posts :
                                posts[p].author = u /\ posts[p].status = "published"})

====
